---- MODULE Spec2Model ----
(***************************************************************************)
(* Model of scripts/llm_coach.py: the ScryptoLLMCoach generate / extract / *)
(* write / check / test / retry loop.                                      *)
(*                                                                         *)
(* Python str values are sequences of one-character strings; an            *)
(* Optional[str] is <<>> (None) or <<s>>.  A pathlib path is a record      *)
(* [abs, parts].  The completion service, the file system and the cargo    *)
(* processes are the environment: each step draws their outcome from a     *)
(* small set.                                                              *)
(***************************************************************************)
EXTENDS Integers, Sequences, FiniteSets, TLC

\* ------------------------------------------------------------------ bounds
\* Largest max_retries a caller passes.
MaxRetries == 2
\* Longest list of prompts a caller passes to batch_generate.
MaxBatch == 2
\* Longest list of results a caller passes to _save_results.
MaxResults == 3
\* Most calls of _extract_scrypto_code a caller makes on one response text.
MaxProbes == 2

\* ------------------------------------------------------- program constants
\* test_output[-1000:]
TailLen == 1000
\* response_text[:200]
PreviewLen == 200
\* self.kb_context[:1500]
KbLimit == 1500
\* def generate_and_test(self, prompt, max_retries: int = 1)
DefaultMaxRetries == 1

\* ------------------------------------------------------------ str helpers
\* the backquote character (a TLA+ string cannot hold it)
BQ == "BQ"

None == <<>>
Some(x) == <<x>>

Min(S) == CHOOSE x \in S : \A y \in S : x <= y
Max(S) == CHOOSE x \in S : \A y \in S : x >= y

\* s[-n:]
LastChars(s, n) == IF Len(s) <= n THEN s ELSE SubSeq(s, Len(s) - n + 1, Len(s))
\* s[:n]
FirstChars(s, n) == IF Len(s) <= n THEN s ELSE SubSeq(s, 1, n)

\* s[i:].startswith(p), i 1-based
StartsAt(s, i, p) == /\ i + Len(p) - 1 <= Len(s)
                     /\ \A j \in 1..Len(p) : s[i + j - 1] = p[j]
\* p in s
Contains(s, p) == \E i \in 1..(Len(s) + 1) : StartsAt(s, i, p)

Whitespace == {" ", "\n", "\t", "\r"}
\* s.strip()
Strip(s) == LET keep == {i \in 1..Len(s) : s[i] \notin Whitespace}
            IN  IF keep = {} THEN <<>> ELSE SubSeq(s, Min(keep), Max(keep))

\* ------------------------------------------------------------- literals
MsgTimeout == <<"T","e","s","t"," ","e","x","e","c","u","t","i","o","n"," ","t","i","m","e","d"," ","o","u","t">>
MsgMissingCargo == <<"c","a","r","g","o"," ","c","o","m","m","a","n","d"," ","n","o","t"," ","f","o","u","n","d">>
MsgExecFailed == <<"T","e","s","t"," ","e","x","e","c","u","t","i","o","n"," ","f","a","i","l","e","d",":"," ">>
MsgNoExtract == <<"C","o","u","l","d"," ","n","o","t"," ","e","x","t","r","a","c","t"," ","v","a","l","i","d"," ","S","c","r","y","p","t","o"," ","c","o","d","e">>
MsgLLMError == <<"L","L","M"," ","A","P","I"," ","e","r","r","o","r",":"," ">>
MsgGenError == <<"C","o","d","e"," ","g","e","n","e","r","a","t","i","o","n"," ","e","r","r","o","r",":"," ">>

\* ------------------------------------------------ _looks_like_scrypto
scrypto_indicators ==
  << <<"u","s","e"," ","s","c","r","y","p","t","o",":",":","p","r","e","l","u","d","e",":",":","*">>,
     <<"#","[","b","l","u","e","p","r","i","n","t","]">>,
     <<"i","m","p","l">>,
     <<"R","e","s","o","u","r","c","e","A","d","d","r","e","s","s">>,
     <<"C","o","m","p","o","n","e","n","t","A","d","d","r","e","s","s">>,
     <<"B","u","c","k","e","t">>,
     <<"V","a","u","l","t">> >>

_looks_like_scrypto(code) ==
  \E k \in 1..Len(scrypto_indicators) : Contains(code, scrypto_indicators[k])

\* ------------------------------------------------ _extract_scrypto_code
\* the list with the loosest pattern tried first
code_patterns_loosest_first ==
  << [pre |-> <<BQ,BQ,BQ>>, suf |-> <<BQ,BQ,BQ>>],
     [pre |-> <<BQ,BQ,BQ,"r","u","s","t","\n">>, suf |-> <<"\n",BQ,BQ,BQ>>],
     [pre |-> <<BQ,BQ,BQ,"s","c","r","y","p","t","o","\n">>, suf |-> <<"\n",BQ,BQ,BQ>>],
     [pre |-> <<BQ,BQ,BQ,"\n">>, suf |-> <<"\n",BQ,BQ,BQ>>],
     [pre |-> <<BQ,BQ,BQ,"r","u","s","t">>, suf |-> <<BQ,BQ,BQ>>] >>

\* Each pattern is  pre (.*?) suf  under re.DOTALL.
code_patterns ==
  << [pre |-> <<BQ,BQ,BQ,"r","u","s","t","\n">>, suf |-> <<"\n",BQ,BQ,BQ>>],
     [pre |-> <<BQ,BQ,BQ,"s","c","r","y","p","t","o","\n">>, suf |-> <<"\n",BQ,BQ,BQ>>],
     [pre |-> <<BQ,BQ,BQ,"\n">>, suf |-> <<"\n",BQ,BQ,BQ>>],
     [pre |-> <<BQ,BQ,BQ,"r","u","s","t">>, suf |-> <<BQ,BQ,BQ>>],
     [pre |-> <<BQ,BQ,BQ>>, suf |-> <<BQ,BQ,BQ>>] >>

\* Start positions at which  pre (.*?) suf  matches (DOTALL: . is any char).
MatchStarts(text, pat) ==
  {i \in 1..Len(text) :
     /\ StartsAt(text, i, pat.pre)
     /\ \E j \in (i + Len(pat.pre))..(Len(text) + 1) : StartsAt(text, j, pat.suf)}

\* re.findall(pattern, text, re.DOTALL): None when the list is empty,
\* otherwise matches[0], the group of the leftmost match, lazily extended.
FirstMatch(text, pat) ==
  LET starts == MatchStarts(text, pat)
  IN  IF starts = {} THEN None
      ELSE LET i == Min(starts)
               b == i + Len(pat.pre)
               j == Min({e \in b..(Len(text) + 1) : StartsAt(text, e, pat.suf)})
           IN  Some(SubSeq(text, b, j - 1))

RECURSIVE ExtractFrom(_, _)
\* the for loop over code_patterns from index k on, then the whole-text check
ExtractFrom(text, k) ==
  IF k > Len(code_patterns)
  THEN IF _looks_like_scrypto(text) THEN Some(Strip(text)) ELSE None
  ELSE LET m == FirstMatch(text, code_patterns[k])
       IN  IF m # None /\ _looks_like_scrypto(Strip(m[1]))
           THEN Some(Strip(m[1]))
           ELSE ExtractFrom(text, k + 1)

_extract_scrypto_code(response_text) == ExtractFrom(response_text, 1)

\* the guard `if not code:` dropped
NotCode_never(code) == FALSE

\* `not code` for an Optional[str]: None and "" are both falsy
NotCode(code) == code = None \/ code[1] = <<>>

\* -------------------------------------------------------- _build_prompt
\* `if error_context:` for an Optional[str]
Truthy(error_context) == error_context # None /\ error_context[1] # <<>>

\* The prompt as its sections in order; a fixed section has empty text.
_build_prompt(kb, user_request, error_context) ==
  << [section |-> "ROLE", text |-> <<>>],
     [section |-> "CONTEXT", text |-> FirstChars(kb, KbLimit)],
     [section |-> "INSTRUCTIONS", text |-> <<>>],
     [section |-> "USER REQUEST", text |-> user_request] >>
  \o (IF Truthy(error_context)
      THEN << [section |-> "PREVIOUS COMPILATION ERROR", text |-> error_context[1]],
              [section |-> "PLEASE FIX", text |-> <<>>] >>
      ELSE << >>)

\* ------------------------------------------------------------ pathlib
\* Path("output"), set by __init__
output_dir == [abs |-> FALSE, parts |-> <<"output">>]

\* p / name
Join(p, name) == [p EXCEPT !.parts = Append(@, name)]

\* as if p were made absolute (resolved against the working directory)
\* before relative_to: never raises
relative_to_resolved(p, other) == Some([abs |-> FALSE, parts |-> p.parts])

\* p.relative_to(other): None stands for the ValueError pathlib raises when
\* one path is absolute and the other is not, or other is no prefix of p.
relative_to(p, other) ==
  IF /\ p.abs = other.abs
     /\ Len(other.parts) <= Len(p.parts)
     /\ SubSeq(p.parts, 1, Len(other.parts)) = other.parts
  THEN Some([abs |-> FALSE,
             parts |-> SubSeq(p.parts, Len(other.parts) + 1, Len(p.parts))])
  ELSE None

\* str(e) of that ValueError (its wording is not modelled)
MsgValueError == <<"V","a","l","u","e","E","r","r","o","r">>

\* ------------------------------------------------------- the environment
\* Path.cwd(): always absolute
Cwds == {[abs |-> TRUE, parts |-> <<"work">>]}

\* texts _load_knowledge_base can return ("" when kb/cleaned is missing)
KbContexts == {<<"=","=","=">>}

\* user requests
Prompts == {<<"h","i">>}

\* hash(prompt): str hashes are salted per process, so the values are an
\* input; 10007 and 7 fall in the same bucket modulo 10000
HashValues == {7, 10007}
HashModulus == 10000

\* f"generated_{hash(prompt) % 10000}"
blueprint_name_of(h) == "generated_" \o ToString(h % HashModulus)

\* response texts of the completion service
Responses ==
  { <<"S","o","r","r","y",","," ","n","o",".">>,
    <<"o","k","\n",BQ,BQ,BQ,"r","u","s","t","\n","i","m","p","l"," ","A"," ","{","}","\n",BQ,BQ,BQ,"\n">>
}

\* str(e) of an exception raised by the completion call or by a file write
ExcMsgs == {<<"b","o","o","m">>}

Digits == <<"0","1","2","3","4","5","6","7","8","9">>

\* Diagnostic texts a cargo process can print in attempt k.  Each non-empty
\* one ends with the attempt's ordinal, so texts of different attempts
\* differ; the long one has TailLen + 1 characters.
Diagnostics(k) ==
  { <<>>,
    <<"E", Digits[k + 1]>>,
    [i \in 1..(TailLen + 1) |->
       IF i = 1 THEN "H" ELSE IF i = TailLen + 1 THEN Digits[k + 1] ELSE "x"] }

Stdouts == {<<"r","u","n"," ">>}

\* cargo test prints nothing on stderr when the tests pass
QuietWhenPassed(returncode, stderr) == returncode = 0 => stderr = <<>>

\* ------------------------------------------------------------- state
VARIABLES
  pc,             \* position in generate_and_test
  kb_context,     \* self.kb_context
  cwd,            \* Path.cwd()
  hashes,         \* hash() on the prompts, fixed for the process
  fs,             \* project directories under output/, by name
  prompt,         \* argument of generate_and_test
  max_retries,    \* argument of generate_and_test
  attempt,        \* the loop variable
  broke,          \* the loop was left by break
  error_context,  \* local error_context
  result,         \* local result dict
  code,           \* local code (Optional[str])
  code_file,      \* local code_file
  run,            \* what _run_tests has returned (None before it returns)
  built,          \* history: every _build_prompt call
  calls,          \* history: every external call, in order
  extractions,    \* history: every _extract_scrypto_code return value
  runs,           \* history: every _run_tests return value
  writes,         \* history: every _write_code_file call
  batch,          \* batch_generate: its position, argument and local results
  saved,          \* history: every document _save_results has dumped
  procs,          \* cargo processes started and still running
  probe           \* a response text and what _extract_scrypto_code returned
                  \* each time a caller passed it

vars == <<pc, kb_context, cwd, hashes, fs, prompt, max_retries, attempt, broke,
          error_context, result, code, code_file, run, built, calls,
          extractions, runs, writes, batch, saved, procs, probe>>

\* every variable but probe
coach == <<pc, kb_context, cwd, hashes, fs, prompt, max_retries, attempt, broke,
           error_context, result, code, code_file, run, built, calls,
           extractions, runs, writes, batch, saved, procs>>

\* the state of batch_generate and of results.json
outer == <<batch, saved>>

env == <<kb_context, cwd, hashes>>

\* An entry of calls: the operation, the attempt it belongs to, the
\* exception it raised ("none" when it returned), the exit code of a cargo
\* process, and the text that was read from it: the reply of the completion
\* service, the code handed to _write_code_file, the stderr of a failed
\* check, the [stdout, stderr] of a test.
Event(op, k, exc, returncode, text) ==
  [op |-> op, attempt |-> k, exc |-> exc, returncode |-> returncode, text |-> text]

\* range(max_retries + 2): one iteration too many
LoopRange_extra(m) == 0..(m + 1)

\* range(max_retries + 1)
LoopRange(m) == 0..m

\* batch_generate not called
NoBatch == [state |-> "idle", prompts |-> <<>>, results |-> <<>>]

\* The coach after __init__, in an environment drawn from the given sets,
\* with batch_generate at b and a response text drawn from texts.
InitProbing(kbs, cwds, hashfns, b, texts) ==
  /\ pc = "idle"
  /\ kb_context \in kbs
  /\ cwd \in cwds
  /\ hashes \in hashfns
  /\ fs = << >>
  /\ prompt = <<>>
  /\ max_retries = 0
  /\ attempt = 0
  /\ broke = FALSE
  /\ error_context = None
  /\ result = [prompt |-> <<>>, attempts |-> <<>>,
               final_status |-> "failed", retry_count |-> 0]
  /\ code = None
  /\ code_file = output_dir
  /\ run = None
  /\ built = <<>>
  /\ calls = <<>>
  /\ extractions = <<>>
  /\ runs = <<>>
  /\ writes = <<>>
  /\ batch = b
  /\ saved = <<>>
  /\ procs = {}
  /\ probe \in [text : texts, returns : {<<>>}]

InitWith(kbs, cwds, hashfns, b) == InitProbing(kbs, cwds, hashfns, b, {<<>>})

InitIn(kbs, cwds, hashfns) == InitWith(kbs, cwds, hashfns, NoBatch)

Init == InitIn(KbContexts, Cwds, [Prompts -> {10007}])

\* the result dict starting as passed
EnterLocals_optimistic(p, m) ==
  /\ pc' = "loop"
  /\ prompt' = p
  /\ max_retries' = m
  /\ attempt' = 0
  /\ broke' = FALSE
  /\ error_context' = None
  /\ result' = [prompt |-> p, attempts |-> <<>>,
                final_status |-> "passed", retry_count |-> 0]

\* the parameters and locals of generate_and_test(p, m) at the loop
EnterLocals(p, m) ==
  /\ pc' = "loop"
  /\ prompt' = p
  /\ max_retries' = m
  /\ attempt' = 0
  /\ broke' = FALSE
  /\ error_context' = None
  /\ result' = [prompt |-> p, attempts |-> <<>>,
                final_status |-> "failed", retry_count |-> 0]

\* generate_and_test(p, m) up to the loop
Enter(p, m) ==
  /\ pc = "idle"
  /\ EnterLocals(p, m)
  /\ UNCHANGED <<env, probe, procs, outer, fs, code, code_file, run, built, calls, extractions,
                 runs, writes>>

\* the iteration is run again for the same attempt
NextIteration_again == attempt' = attempt /\ pc' = "loop"

\* the `continue` statements and the end of the loop body
NextIteration == attempt' = attempt + 1 /\ pc' = "loop"

\* every failed record counted as a retry
AppendAttempt_counting(rec) ==
  result' = [result EXCEPT !.attempts = Append(@, rec), !.retry_count = @ + 1]

\* the failure is dropped without a record
AppendAttempt_lost(rec) == result' = result

\* result["attempts"].append(rec)
AppendAttempt(rec) == result' = [result EXCEPT !.attempts = Append(@, rec)]

\* One loop iteration up to `continue` or to the write stage: build the
\* prompt, call the completion service, extract the code.
\* resp = None: the call (or reading its reply) raises e.
Generate(resp, e) ==
  /\ pc = "loop"
  /\ ~broke
  /\ attempt \in LoopRange(max_retries)
  /\ LET full_prompt == _build_prompt(kb_context, prompt, error_context)
     IN  built' = Append(built, [attempt |-> attempt,
                                 error_context |-> error_context,
                                 full_prompt |-> full_prompt])
  /\ calls' = Append(calls, Event("completion", attempt,
                                   IF resp = None THEN "Exception" ELSE "none",
                                   0, resp))
  /\ IF resp = None
     THEN /\ AppendAttempt([attempt |-> attempt + 1, status |-> "failed",
                            error |-> MsgLLMError \o e])
          /\ NextIteration
          /\ UNCHANGED <<code, extractions>>
     ELSE LET response_text == resp[1]
              extracted == _extract_scrypto_code(response_text)
          IN  /\ code' = extracted
              /\ extractions' = Append(extractions,
                                       [attempt |-> attempt, code |-> extracted])
              /\ IF NotCode(extracted)
                 THEN /\ AppendAttempt(
                           [attempt |-> attempt + 1, status |-> "failed",
                            error |-> MsgNoExtract,
                            response_preview |-> FirstChars(response_text, PreviewLen)])
                      /\ NextIteration
                 ELSE /\ pc' = "write"
                      /\ UNCHANGED <<attempt, result>>
  /\ UNCHANGED <<env, probe, procs, outer, fs, prompt, max_retries, broke, error_context,
                 code_file, run, runs, writes>>

\* ----------------------------------------------------- _write_code_file
\* Cargo.toml: the fixed template with the name interpolated
cargo_toml(blueprint_name) == [template |-> "Cargo.toml", name |-> blueprint_name]

\* what the file system can do to one _write_code_file call: all writes
\* succeed, or write_text of lib.rs raises once Cargo.toml is written
WriteOutcomes == {"ok", "lib_rs_fails"}

\* the package directory made anew, whatever it held before
Mkdirs_fresh(files, name) ==
  [n \in DOMAIN files \cup {name} |->
     IF n = name THEN [cargo_toml |-> None, lib_rs |-> None] ELSE files[n]]

\* mkdir(exist_ok=True) of the package directory and of its src directory
Mkdirs(files, name) ==
  IF name \in DOMAIN files THEN files
  ELSE (name :> [cargo_toml |-> None, lib_rs |-> None]) @@ files

\* lib.rs opened for appending: the text is added to what the file held
WrittenFs_append(files, text, name, w) ==
  LET made == Mkdirs(files, name)
      withToml == [made EXCEPT ![name].cargo_toml = Some(cargo_toml(name))]
      old == IF made[name].lib_rs = None THEN <<>> ELSE made[name].lib_rs[1]
  IN  IF w = "lib_rs_fails" THEN withToml
      ELSE [withToml EXCEPT ![name].lib_rs = Some(old \o text[1])]

\* the file system after _write_code_file(text, name) with outcome w;
\* text is the Optional[str] passed as code
WrittenFs(files, text, name, w) ==
  LET made == Mkdirs(files, name)
      withToml == [made EXCEPT ![name].cargo_toml = Some(cargo_toml(name))]
  IN  IF w = "lib_rs_fails" THEN withToml
      ELSE [withToml EXCEPT ![name].lib_rs = text]

\* blueprint_name and the call of _write_code_file; e is str(e) when it raises
WriteCodeFile(w, e) ==
  /\ pc = "write"
  /\ LET blueprint_name == blueprint_name_of(hashes[prompt])
         package_dir == Join(output_dir, blueprint_name)
         \* write_text(None) raises TypeError once Cargo.toml is written
         did == IF w = "ok" /\ code = None THEN "lib_rs_fails" ELSE w
     IN  /\ fs' = WrittenFs(fs, code, blueprint_name, did)
         /\ writes' = Append(writes, [prompt |-> prompt, attempt |-> attempt,
                                      name |-> blueprint_name, code |-> code,
                                      ok |-> did = "ok"])
         /\ calls' = Append(calls, Event("write", attempt,
                                          IF did = "ok" THEN "none" ELSE "Exception",
                                          0, code))
         /\ IF did = "ok"
            THEN /\ code_file' = Join(Join(package_dir, "src"), "lib.rs")
                 /\ pc' = "check"
                 /\ run' = None
                 /\ UNCHANGED <<attempt, result>>
            ELSE /\ AppendAttempt([attempt |-> attempt + 1, status |-> "failed",
                                   error |-> MsgGenError \o e])
                 /\ NextIteration
                 /\ UNCHANGED <<code_file, run>>
  /\ UNCHANGED <<env, probe, procs, outer, prompt, max_retries, broke, error_context, code, built,
                 extractions, runs>>

\* ------------------------------------------------------------ _run_tests
\* exit codes of a cargo process
ReturnCodes == {0, 101}

\* ways subprocess.run can raise
RunExceptions == {"TimeoutExpired", "FileNotFoundError", "Exception"}

\* every exception taken by the `except Exception` clause
Caught_generic(exc, e) ==
  [success |-> FALSE, output |-> MsgExecFailed \o e, type |-> "execution_error"]

\* the except clauses of _run_tests
Caught(exc, e) ==
  CASE exc = "TimeoutExpired" ->
         [success |-> FALSE, output |-> MsgTimeout, type |-> "timeout"]
    [] exc = "FileNotFoundError" ->
         [success |-> FALSE, output |-> MsgMissingCargo, type |-> "missing_cargo"]
    [] OTHER ->
         [success |-> FALSE, output |-> MsgExecFailed \o e, type |-> "execution_error"]

\* the exit code of cargo check ignored
CheckFailed_never(returncode) == FALSE

\* compile_result.returncode != 0
CheckFailed(returncode) == returncode # 0

\* the child is left running when its deadline has passed
LeftRunning_on_timeout(op, exc) == IF exc = "TimeoutExpired" THEN {op} ELSE {}

\* The cargo processes a subprocess.run call leaves running when it returns
\* or raises exc: it returns when the child has exited, on a passed
\* deadline it kills the child and waits for it before it raises, and a
\* failed spawn starts no child.
LeftRunning(op, exc) == {}

\* _run_tests returns ret to generate_and_test
RunReturns(ret) ==
  /\ run' = Some(ret)
  /\ runs' = Append(runs, [attempt |-> attempt] @@ ret)
  /\ pc' = "record"

\* subprocess.run(["cargo", "check"]) and what follows it.
\* exc = "none": the process exited with returncode and printed stderr.
RunCheck(exc, returncode, stderr, e) ==
  /\ pc = "check"
  /\ procs' = procs \cup LeftRunning("check", exc)
  /\ calls' = Append(calls,
       Event("check", attempt, exc, IF exc = "none" THEN returncode ELSE 0,
             IF exc = "none" /\ returncode # 0 THEN Some(stderr) ELSE None))
  /\ IF exc # "none"
     THEN RunReturns(Caught(exc, e))
     ELSE IF CheckFailed(returncode)
          THEN RunReturns([success |-> FALSE, output |-> stderr,
                           type |-> "compilation_error"])
          ELSE /\ pc' = "test"
               /\ UNCHANGED <<run, runs>>
  /\ UNCHANGED <<env, probe, outer, fs, prompt, max_retries, attempt, broke, error_context,
                 result, code, code_file, built, extractions, writes>>

\* test_result.returncode == 0
TestPassed(returncode) == returncode = 0

\* the two streams joined in the wrong order
TestOutput_stderr_first(stdout, stderr) == stderr \o stdout

\* test_result.stdout + test_result.stderr
TestOutput(stdout, stderr) == stdout \o stderr

\* subprocess.run(["cargo", "test"]) and what follows it
RunTest(exc, returncode, stdout, stderr, e) ==
  /\ pc = "test"
  /\ procs' = procs \cup LeftRunning("test", exc)
  /\ calls' = Append(calls,
       Event("test", attempt, exc, IF exc = "none" THEN returncode ELSE 0,
             IF exc = "none" THEN Some([stdout |-> stdout, stderr |-> stderr])
             ELSE None))
  /\ IF exc # "none"
     THEN RunReturns(Caught(exc, e))
     ELSE RunReturns([success |-> TestPassed(returncode),
                      output |-> TestOutput(stdout, stderr),
                      type |-> "test_complete"])
  /\ UNCHANGED <<env, probe, outer, fs, prompt, max_retries, attempt, broke, error_context,
                 result, code, code_file, built, extractions, writes>>

\* ------------------------------------- generate_and_test after _run_tests
\* Building attempt_result, appending it and deciding on a retry; the
\* except clause when str(code_file.relative_to(Path.cwd())) raises.
RecordAttempt ==
  /\ pc = "record"
  /\ LET success == run[1].success
         test_output == run[1].output
         test_type == run[1].type
         rel == relative_to(code_file, cwd)
     IN  IF rel = None
         THEN /\ AppendAttempt([attempt |-> attempt + 1, status |-> "failed",
                                error |-> MsgGenError \o MsgValueError])
              /\ NextIteration
              /\ UNCHANGED <<broke, error_context>>
         ELSE LET attempt_result ==
                    [attempt |-> attempt + 1,
                     status |-> IF success THEN "passed" ELSE "failed",
                     code_file |-> rel[1],
                     test_output |-> test_output,
                     test_type |-> test_type]
                  appended == Append(result.attempts, attempt_result)
              IN  IF success
                  THEN /\ result' = [result EXCEPT !.attempts = appended,
                                                   !.final_status = "passed",
                                                   !.retry_count = attempt]
                       /\ broke' = TRUE
                       /\ pc' = "loop"
                       /\ UNCHANGED <<attempt, error_context>>
                  ELSE /\ IF attempt < max_retries
                          THEN /\ error_context' = Some(LastChars(test_output, TailLen))
                               /\ result' = [result EXCEPT !.attempts = appended,
                                                           !.retry_count = attempt + 1]
                          ELSE /\ result' = [result EXCEPT !.attempts = appended]
                               /\ UNCHANGED error_context
                       /\ NextIteration
                       /\ UNCHANGED broke
  /\ UNCHANGED <<env, probe, procs, outer, fs, prompt, max_retries, code, code_file, run, built,
                 calls, extractions, runs, writes>>

\* a loop that is left only by break
Return_only_after_break ==
  /\ pc = "loop"
  /\ broke
  /\ pc' = "done"
  /\ UNCHANGED <<env, probe, procs, outer, fs, prompt, max_retries, attempt, broke, error_context,
                 result, code, code_file, run, built, calls, extractions, runs,
                 writes>>

\* `return result`, after break or when the range is used up
Return ==
  /\ pc = "loop"
  /\ broke \/ attempt \notin LoopRange(max_retries)
  /\ pc' = "done"
  /\ UNCHANGED <<env, probe, procs, outer, fs, prompt, max_retries, attempt, broke, error_context,
                 result, code, code_file, run, built, calls, extractions, runs,
                 writes>>

\* ------------------------------------------------------- _save_results
\* sum(1 for r in results if r["final_status"] == status)
CountStatus(results, status) ==
  Cardinality({i \in 1..Len(results) : results[i].final_status = status})

RECURSIVE SumRetry(_)
\* sum(r["retry_count"] for r in results)
SumRetry(results) ==
  IF results = <<>> THEN 0
  ELSE results[1].retry_count + SumRetry(Tail(results))

\* a / b of two ints and the int 0, as exact fractions (the rounding of the
\* float is left out)
Quotient(a, b) == [num |-> a, den |-> b]
Zero == [num |-> 0, den |-> 1]

\* every result counted as successful
summary_all_successful(results) ==
  [total_attempts |-> Len(results),
   successful |-> Len(results),
   failed |-> CountStatus(results, "failed"),
   retry_rate |-> IF results # <<>>
                  THEN Quotient(SumRetry(results), Len(results)) ELSE Zero]

\* the summary dict
summary(results) ==
  [total_attempts |-> Len(results),
   successful |-> CountStatus(results, "passed"),
   failed |-> CountStatus(results, "failed"),
   retry_rate |-> IF results # <<>>
                  THEN Quotient(SumRetry(results), Len(results)) ELSE Zero]

\* output_data without its timestamp
output_data(results) == [results |-> results, summary |-> summary(results)]

\* the dump left out
_save_results_skipped(results) == saved' = saved

\* json.dump(output_data, f) into results.json
_save_results(results) == saved' = Append(saved, output_data(results))

\* what the file system can do to one _save_results call: the dump is
\* written, or open("results.json", "w") raises; nothing catches that
DumpOutcomes == {"ok", "open_fails"}

\* a caller's _save_results(batch.results), as main does for one result
SaveResults(d) ==
  /\ batch.state = "save"
  /\ IF d = "ok"
     THEN /\ _save_results(batch.results)
          /\ batch' = [batch EXCEPT !.state = "done"]
     ELSE /\ saved' = saved
          /\ batch' = [batch EXCEPT !.state = "raised"]
  /\ UNCHANGED <<env, probe, procs, pc, fs, prompt, max_retries, attempt, broke, error_context,
                 result, code, code_file, run, built, calls, extractions, runs,
                 writes>>

\* ------------------------------------------------------- batch_generate
\* the loop stopped at the first failed result
BatchFinished_on_failure ==
  \/ Len(batch.results) = Len(batch.prompts)
  \/ /\ batch.results # <<>>
     /\ batch.results[Len(batch.results)].final_status = "failed"

\* the for loop over prompts is used up
BatchFinished == Len(batch.results) = Len(batch.prompts)

\* batch_generate(ps) up to the loop
BatchGenerate(ps) ==
  /\ batch.state = "idle"
  /\ pc = "idle"
  /\ batch' = [state |-> "running", prompts |-> ps, results |-> <<>>]
  /\ UNCHANGED <<env, probe, procs, saved, pc, fs, prompt, max_retries, attempt, broke,
                 error_context, result, code, code_file, run, built, calls,
                 extractions, runs, writes>>

\* self.generate_and_test(prompt) for the next prompt of the list; the
\* histories of one call start empty
BatchCall ==
  /\ batch.state = "running"
  /\ pc = "idle"
  /\ ~BatchFinished
  /\ EnterLocals(batch.prompts[Len(batch.results) + 1], DefaultMaxRetries)
  /\ code' = None
  /\ code_file' = output_dir
  /\ run' = None
  /\ calls' = <<>>
  /\ extractions' = <<>>
  /\ runs' = <<>>
  /\ UNCHANGED <<env, probe, procs, outer, fs, built, writes>>

\* results.append(result) and self._save_results(results); when the dump
\* raises, the exception leaves batch_generate
BatchCollect(d) ==
  /\ batch.state = "running"
  /\ pc = "done"
  /\ LET results == Append(batch.results, result)
     IN  IF d = "ok"
         THEN /\ batch' = [batch EXCEPT !.results = results]
              /\ _save_results(results)
         ELSE /\ batch' = [batch EXCEPT !.results = results, !.state = "raised"]
              /\ saved' = saved
  /\ pc' = "idle"
  /\ UNCHANGED <<env, probe, procs, fs, prompt, max_retries, attempt, broke, error_context,
                 result, code, code_file, run, built, calls, extractions, runs,
                 writes>>

\* `return results`
BatchReturn ==
  /\ batch.state = "running"
  /\ pc = "idle"
  /\ BatchFinished
  /\ batch' = [batch EXCEPT !.state = "done"]
  /\ UNCHANGED <<env, probe, procs, saved, pc, fs, prompt, max_retries, attempt, broke,
                 error_context, result, code, code_file, run, built, calls,
                 extractions, runs, writes>>

Next ==
  \/ \E p \in Prompts, m \in 0..MaxRetries : Enter(p, m)
  \/ \E resp \in {None} \cup {Some(r) : r \in Responses}, e \in ExcMsgs :
       Generate(resp, e)
  \/ \E w \in WriteOutcomes, e \in ExcMsgs : WriteCodeFile(w, e)
  \/ /\ pc = "check"
     /\ \E stderr \in Diagnostics(attempt), exc \in {"none"} \cup RunExceptions,
           rc \in ReturnCodes, e \in ExcMsgs :
          RunCheck(exc, rc, stderr, e)
  \/ /\ pc = "test"
     /\ \E stderr \in Diagnostics(attempt), exc \in {"none"} \cup RunExceptions,
           rc \in ReturnCodes, stdout \in Stdouts, e \in ExcMsgs :
          /\ QuietWhenPassed(rc, stderr)
          /\ RunTest(exc, rc, stdout, stderr, e)
  \/ RecordAttempt
  \/ Return

Spec == Init /\ [][Next]_vars

\* ---------------------------------------------- a batch of requests
\* all sequences over S of length at most n
SeqsUpTo(S, n) == UNION {[1..k -> S] : k \in 0..n}

\* user requests of a batch
BatchPrompts == Prompts \cup {<<"d","e","x">>}

\* hash() on the prompts of a batch: the second prompt falls into the bucket
\* of the first, has the very hash of the first, or falls into another bucket
BatchHashes ==
  {h \in [BatchPrompts -> HashValues \cup {8}] : h[<<"h","i">>] = 10007}

\* the reply with a fenced rust block
CodeResponse == CHOOSE r \in Responses : ~NotCode(_extract_scrypto_code(r))

\* what cargo check prints when it fails
CheckDiagnostic == <<"E","0">>

InitBatch == InitIn(KbContexts, Cwds, BatchHashes)

\* batch_generate on a list of prompts; each attempt ends by a raising
\* completion call, a failing file write, a failing cargo check or a
\* passing cargo test
NextBatch ==
  \/ \E ps \in SeqsUpTo(BatchPrompts, MaxBatch) : BatchGenerate(ps)
  \/ BatchCall
  \/ \E resp \in {None, Some(CodeResponse)}, e \in ExcMsgs : Generate(resp, e)
  \/ \E w \in WriteOutcomes, e \in ExcMsgs : WriteCodeFile(w, e)
  \/ \E rc \in ReturnCodes, e \in ExcMsgs : RunCheck("none", rc, CheckDiagnostic, e)
  \/ \E stdout \in Stdouts, e \in ExcMsgs : RunTest("none", 0, stdout, <<>>, e)
  \/ RecordAttempt
  \/ Return
  \/ \E d \in DumpOutcomes : BatchCollect(d)
  \/ BatchReturn

SpecBatch == InitBatch /\ [][NextBatch]_vars

\* ------------------------------------ one request, replies that differ
\* replies with a fenced rust block, of different code
CodeResponses ==
  { CodeResponse,
    <<BQ,BQ,BQ,"r","u","s","t","\n","i","m","p","l"," ","B"," ","{","}","\n",BQ,BQ,BQ>> }

\* generate_and_test with replies of different code; each attempt ends by
\* a raising completion call, a failing file write, a failing cargo check
\* or a passing cargo test
NextWrite ==
  \/ \E p \in Prompts, m \in 0..MaxRetries : Enter(p, m)
  \/ \E resp \in {None} \cup {Some(r) : r \in CodeResponses}, e \in ExcMsgs :
       Generate(resp, e)
  \/ \E w \in WriteOutcomes, e \in ExcMsgs : WriteCodeFile(w, e)
  \/ \E rc \in ReturnCodes, e \in ExcMsgs : RunCheck("none", rc, CheckDiagnostic, e)
  \/ \E stdout \in Stdouts, e \in ExcMsgs : RunTest("none", 0, stdout, <<>>, e)
  \/ RecordAttempt
  \/ Return

SpecWrite == Init /\ [][NextWrite]_vars

\* -------------------------------- _extract_scrypto_code on a response
\* how a fenced block of a response opens and closes
FenceOpeners ==
  { <<BQ,BQ,BQ,"r","u","s","t","\n">>,
    <<BQ,BQ,BQ,"s","c","r","y","p","t","o","\n">>,
    <<BQ,BQ,BQ,"\n">>,
    <<BQ,BQ,BQ,"r","u","s","t"," ">>,
    <<BQ,BQ,BQ," ">> }

FenceClosers == { <<"\n",BQ,BQ,BQ>>, <<" ",BQ,BQ,BQ>> }

\* what stands inside a block: with a signature token or without
BlockContents ==
  { <<"i","m","p","l"," ","A">>, <<"i","m","p","l"," ","B">>, <<"f","o","o">> }

\* what stands outside the blocks
Proses == { <<>>, <<"i","m","p","l"," ">> }

FencedBlocks ==
  {o \o c \o z : o \in FenceOpeners, c \in BlockContents, z \in FenceClosers}

\* response texts: prose, at most one block, prose, at most one block
ProbeTexts ==
  {p1 \o b1 \o p2 \o b2 : p1 \in Proses, p2 \in Proses,
                          b1 \in FencedBlocks \cup {<<>>},
                          b2 \in FencedBlocks \cup {<<>>}}

\* the call returns None on every call after the first
ExtractProbe_once ==
  /\ Len(probe.returns) < MaxProbes
  /\ probe' = [probe EXCEPT !.returns =
                 Append(@, IF @ = <<>> THEN _extract_scrypto_code(probe.text)
                           ELSE None)]
  /\ UNCHANGED coach

\* a caller's self._extract_scrypto_code(probe.text)
ExtractProbe ==
  /\ Len(probe.returns) < MaxProbes
  /\ probe' = [probe EXCEPT !.returns =
                 Append(@, _extract_scrypto_code(probe.text))]
  /\ UNCHANGED coach

InitExtract ==
  InitProbing(KbContexts, Cwds, [Prompts -> {10007}], NoBatch, ProbeTexts)

\* calls of _extract_scrypto_code on the text, before, within and after a
\* generate_and_test call whose completion calls raise
NextExtract ==
  \/ ExtractProbe
  \/ \E p \in Prompts : Enter(p, 0)
  \/ \E e \in ExcMsgs : Generate(None, e)
  \/ Return

SpecExtract == InitExtract /\ [][NextExtract]_vars

\* ----------------------------------- a call whose external calls end
\* how a cargo process ends: it exits or its deadline passes
Endings == {"none", "TimeoutExpired"}

\* the steps of a generate_and_test call once it is entered; the
\* completion call raises or replies, cargo exits or times out
StepLive ==
  \/ \E resp \in {None, Some(CodeResponse)}, e \in ExcMsgs : Generate(resp, e)
  \/ \E w \in WriteOutcomes, e \in ExcMsgs : WriteCodeFile(w, e)
  \/ \E exc \in Endings, rc \in ReturnCodes, e \in ExcMsgs :
       RunCheck(exc, rc, CheckDiagnostic, e)
  \/ \E exc \in Endings, rc \in ReturnCodes, stdout \in Stdouts, e \in ExcMsgs :
       RunTest(exc, rc, stdout, <<>>, e)
  \/ RecordAttempt
  \/ Return

NextLive ==
  \/ \E p \in Prompts, m \in 0..MaxRetries : Enter(p, m)
  \/ StepLive

\* the iteration whose completion call raises: it can be taken exactly
\* when an iteration can start, whatever the reply would be
GenerateRaises == \E e \in ExcMsgs : Generate(None, e)

\* _write_code_file, cargo check and cargo test ending in some way
WriteEnds == \E w \in WriteOutcomes, e \in ExcMsgs : WriteCodeFile(w, e)
CheckEnds ==
  \E exc \in Endings, rc \in ReturnCodes, e \in ExcMsgs :
    RunCheck(exc, rc, CheckDiagnostic, e)
TestEnds ==
  \E exc \in Endings, rc \in ReturnCodes, stdout \in Stdouts, e \in ExcMsgs :
    RunTest(exc, rc, stdout, <<>>, e)

\* The interpreter runs the next statement of an entered call, and every
\* external call ends: the call does not stay for ever where an iteration
\* can start, where a file write or a cargo process is awaited, where the
\* attempt is recorded or where the function returns.  (An iteration that
\* starts with any reply ends the wait at the head of the loop.)
SpecLive ==
  /\ Init /\ [][NextLive]_vars
  /\ WF_vars(GenerateRaises) /\ WF_vars(WriteEnds) /\ WF_vars(CheckEnds)
  /\ WF_vars(TestEnds) /\ WF_vars(RecordAttempt) /\ WF_vars(Return)

\* ---------------------------------------------- _save_results on a list
\* a result as generate_and_test builds it: r failed attempts, then one
\* more attempt with the final status
SampleResult(status, r) ==
  [prompt |-> <<"h","i">>,
   attempts |-> [k \in 1..(r + 1) |->
                   [attempt |-> k,
                    status |-> IF k = r + 1 THEN status ELSE "failed"]],
   final_status |-> status,
   retry_count |-> r]

SampleResults ==
  {SampleResult(st, r) : st \in {"passed", "failed"}, r \in 0..MaxRetries}

InitSummary ==
  \E rs \in SeqsUpTo(SampleResults, MaxResults) :
    InitWith(KbContexts, Cwds, [Prompts -> {10007}],
             [state |-> "save", prompts |-> <<>>, results |-> rs])

NextSummary == \E d \in DumpOutcomes : SaveResults(d)

SpecSummary == InitSummary /\ [][NextSummary]_vars


\* ======================================================== properties
\* the record appended by the attempt with 0-based ordinal k
AttemptRecord(k) == result.attempts[k + 1]

\* a record appended at `if not code:`
IsExtractionFailure(rec) == "response_preview" \in DOMAIN rec

\* the text of the PREVIOUS COMPILATION ERROR section, None without one
ErrorSection(full_prompt) ==
  LET at == {i \in 1..Len(full_prompt) :
               full_prompt[i].section = "PREVIOUS COMPILATION ERROR"}
  IN  IF at = {} THEN None ELSE Some(full_prompt[Min(at)].text)

\* the entries of calls that belong to attempt k
CallsOf(k) == {i \in 1..Len(calls) : calls[i].attempt = k}

\* C1: the attempts list never has more than max_retries + 1 records, and
\* at the head of the loop and on return it holds exactly one record per
\* iteration run so far.
C1_AttemptsBounded ==
  /\ Len(result.attempts) <= max_retries + 1
  /\ pc \in {"loop", "done"} =>
       Len(result.attempts) = attempt + (IF broke THEN 1 ELSE 0)

\* a call with max_retries >= 1 has returned with max_retries + 1 records
C1_Witness ==
  /\ pc = "done"
  /\ max_retries >= 1
  /\ Len(result.attempts) = max_retries + 1

\* C3: when generate_and_test has returned and the attempt with ordinal k
\* had both cargo check and cargo test exit with code zero, the result is
\* passed, retry_count is k and there are k + 1 records.
C3_PassedWhenCheckAndTestSucceed ==
  pc = "done" =>
    \A i \in 1..Len(runs) :
      runs[i].success =>
        /\ result.final_status = "passed"
        /\ result.retry_count = runs[i].attempt
        /\ Len(result.attempts) = runs[i].attempt + 1

\* C4: when generate_and_test has returned after max_retries + 1 attempts
\* that all failed, final_status is failed and retry_count is max_retries.
C4_ExhaustedRetryCount ==
  ( /\ pc = "done"
    /\ Len(result.attempts) = max_retries + 1
    /\ \A i \in 1..Len(result.attempts) : result.attempts[i].status = "failed" )
  => /\ result.final_status = "failed"
     /\ result.retry_count = max_retries

\* C5: when generate_and_test has returned, retry_count is the ordinal of
\* the last attempt executed, len(attempts) - 1.
C5_RetryCountIsLastOrdinal ==
  pc = "done" /\ Len(result.attempts) >= 1 =>
    result.retry_count = Len(result.attempts) - 1

\* C6: when attempt k failed in the build or the test phase with diagnostic
\* D returned by _run_tests, the error_context given to _build_prompt for
\* attempt k + 1 is the last TailLen characters of D.
C6_NextPromptGetsDiagnosticTail ==
  \A i \in 1..Len(built), j \in 1..Len(runs) :
    ( /\ ~runs[j].success
      /\ runs[j].type \in {"compilation_error", "test_complete"}
      /\ built[i].attempt = runs[j].attempt + 1 )
    => built[i].error_context = Some(LastChars(runs[j].output, TailLen))

\* C7: the prompt built for the attempt after an extraction failure has no
\* error_context and no PREVIOUS COMPILATION ERROR section.
C7_NoDiagnosticAfterExtractionFailure ==
  \A i \in 1..Len(built) :
    ( /\ built[i].attempt >= 1
      /\ IsExtractionFailure(AttemptRecord(built[i].attempt - 1)) )
    => /\ built[i].error_context = None
       /\ ErrorSection(built[i].full_prompt) = None

\* a prompt was built right after an extraction failure, in a call in
\* which an earlier attempt had failed in _run_tests with a non-empty text
C7_Witness ==
  \E i \in 1..Len(built), j \in 1..Len(runs) :
    /\ built[i].attempt >= 1
    /\ IsExtractionFailure(AttemptRecord(built[i].attempt - 1))
    /\ runs[j].attempt < built[i].attempt - 1
    /\ ~runs[j].success
    /\ runs[j].output # <<>>

\* the text D names the attempt k that printed it
Identifies(D, k) == D # <<>> /\ D[Len(D)] = Digits[k + 1]

\* C8: a diagnostic that attempt k got from _run_tests is in the prompt of
\* no attempt other than k + 1: neither as the error_context argument nor as
\* the text of the error section.
C8_DiagnosticOnlyInNextPrompt ==
  \A i \in 1..Len(built), j \in 1..Len(runs) :
    ( /\ Identifies(runs[j].output, runs[j].attempt)
      /\ built[i].attempt # runs[j].attempt + 1 )
    => LET shown == Some(LastChars(runs[j].output, TailLen))
       IN  /\ built[i].error_context # shown
           /\ ErrorSection(built[i].full_prompt) # shown

\* attempt k got a diagnostic from _run_tests, attempt k + 1 ended at the
\* completion call or at the extraction, and the prompt of attempt k + 2
\* was built
C8_Witness ==
  \E i \in 1..Len(built), j \in 1..Len(runs) :
    /\ Identifies(runs[j].output, runs[j].attempt)
    /\ built[i].attempt = runs[j].attempt + 2
    /\ "code_file" \notin DOMAIN AttemptRecord(runs[j].attempt + 1)
    /\ \A c \in CallsOf(runs[j].attempt + 1) : calls[c].op = "completion"

\* the attempt with ordinal k got no code: its completion call raised or
\* _extract_scrypto_code returned None or ""
GotNoCode(k) ==
  \/ \E i \in CallsOf(k) : calls[i].op = "completion" /\ calls[i].exc # "none"
  \/ \E j \in 1..Len(extractions) :
       extractions[j].attempt = k /\ extractions[j].code \in {None, Some(<<>>)}

\* C9: an attempt whose completion call raised or whose reply held no code
\* has no write, check or test call, and its record has status failed and
\* names no code file.
C9_NoWriteWithoutCode ==
  \A k \in 0..(Len(built) - 1) :
    GotNoCode(k) =>
      /\ \A c \in CallsOf(k) : calls[c].op = "completion"
      /\ Len(result.attempts) > k
      /\ AttemptRecord(k).status = "failed"
      /\ "code_file" \notin DOMAIN AttemptRecord(k)

\* a call has returned in which one attempt ended at a raising completion
\* call, one at the extraction, and one went on to write and run cargo
C9_Witness ==
  /\ pc = "done"
  /\ \E i \in 1..Len(calls) : calls[i].op = "completion" /\ calls[i].exc # "none"
  /\ \E j \in 1..Len(extractions) : extractions[j].code = None
  /\ \E i \in 1..Len(calls) : calls[i].op = "check"

\* a cargo process that ran to its end with a non-zero exit code
ExitedNonZero(ev) == ev.exc = "none" /\ ev.returncode # 0

\* C10: cargo test is started only right after a cargo check of the same
\* attempt that exited with zero; after a check that exited non-zero no test
\* is started and _run_tests returns (False, stderr, "compilation_error").
C10_CheckBeforeTest ==
  \A i \in 1..Len(calls) :
    /\ calls[i].op = "test" =>
         /\ i > 1
         /\ calls[i - 1].op = "check"
         /\ calls[i - 1].attempt = calls[i].attempt
         /\ calls[i - 1].exc = "none"
         /\ calls[i - 1].returncode = 0
    /\ calls[i].op = "check" /\ ExitedNonZero(calls[i]) =>
         /\ \A c \in CallsOf(calls[i].attempt) : calls[c].op # "test"
         /\ \E j \in 1..Len(runs) :
              /\ runs[j].attempt = calls[i].attempt
              /\ ~runs[j].success
              /\ runs[j].output = calls[i].text[1]
              /\ runs[j].type = "compilation_error"

\* a call has returned in which one cargo check exited non-zero with a
\* non-empty stderr and another attempt got as far as cargo test
C10_Witness ==
  /\ pc = "done"
  /\ \E i \in 1..Len(calls) :
       /\ calls[i].op = "check" /\ ExitedNonZero(calls[i])
       /\ calls[i].text[1] # <<>>
  /\ \E i \in 1..Len(calls) : calls[i].op = "test"

\* a cargo process that ran to its end with exit code zero
ExitedZero(ev) == ev.exc = "none" /\ ev.returncode = 0

\* C11: _run_tests returns success exactly when the cargo check and the
\* cargo test of the attempt both exited with zero; after a test that exited
\* non-zero it returns the test's stdout followed by its stderr.
C11_SuccessIffBothExitZero ==
  /\ \A j \in 1..Len(runs) :
       runs[j].success <=>
         /\ \E c \in CallsOf(runs[j].attempt) :
              calls[c].op = "check" /\ ExitedZero(calls[c])
         /\ \E c \in CallsOf(runs[j].attempt) :
              calls[c].op = "test" /\ ExitedZero(calls[c])
  /\ \A i \in 1..Len(calls) :
       calls[i].op = "test" /\ ExitedNonZero(calls[i]) =>
         \E j \in 1..Len(runs) :
           /\ runs[j].attempt = calls[i].attempt
           /\ ~runs[j].success
           /\ runs[j].output = calls[i].text[1].stdout \o calls[i].text[1].stderr
           /\ runs[j].type = "test_complete"

\* a call has returned in which _run_tests returned success once and, in
\* another attempt, a test exited non-zero having printed on both streams
C11_Witness ==
  /\ pc = "done"
  /\ \E j \in 1..Len(runs) : runs[j].success
  /\ \E i \in 1..Len(calls) :
       /\ calls[i].op = "test" /\ ExitedNonZero(calls[i])
       /\ calls[i].text[1].stdout # <<>>
       /\ calls[i].text[1].stderr # <<>>

\* the entry of runs for attempt k holds ret
RunReturned(k, ret) ==
  \E j \in 1..Len(runs) : runs[j] = [attempt |-> k] @@ ret

\* the cargo check or the cargo test of attempt k exceeded its deadline
TimedOut(k) ==
  \E i \in CallsOf(k) :
    calls[i].op \in {"check", "test"} /\ calls[i].exc = "TimeoutExpired"

\* C12: when the cargo check or the cargo test of an attempt exceeds its
\* deadline, _run_tests returns (False, the timeout message, "timeout"), the
\* attempt is recorded as failed, and the prompt of the next attempt carries
\* that timeout message as its diagnostic.
C12_TimeoutBecomesNextDiagnostic ==
  \A k \in 0..MaxRetries :
    TimedOut(k) =>
      /\ RunReturned(k, [success |-> FALSE, output |-> MsgTimeout,
                         type |-> "timeout"])
      /\ Len(result.attempts) > k => AttemptRecord(k).status = "failed"
      /\ \A i \in 1..Len(built) :
           built[i].attempt = k + 1 =>
             /\ built[i].error_context = Some(MsgTimeout)
             /\ ErrorSection(built[i].full_prompt) = Some(MsgTimeout)

\* subprocess.run of attempt k did not find the cargo binary
CargoMissing(k) ==
  \E i \in CallsOf(k) :
    calls[i].op \in {"check", "test"} /\ calls[i].exc = "FileNotFoundError"

\* the completion calls made so far, by attempt
CompletionCalls == {i \in 1..Len(calls) : calls[i].op = "completion"}

\* C13: an attempt whose cargo binary is not found makes _run_tests return
\* (False, "cargo command not found", "missing_cargo"); a call in which that
\* happened and no attempt passed returns only after max_retries + 1
\* attempts, each with its own completion call.
C13_MissingCargoDoesNotStopEarly ==
  \A k \in 0..MaxRetries :
    CargoMissing(k) =>
      /\ RunReturned(k, [success |-> FALSE, output |-> MsgMissingCargo,
                         type |-> "missing_cargo"])
      /\ pc = "done" /\ result.final_status = "failed" =>
           /\ Len(result.attempts) = max_retries + 1
           /\ \A a \in 0..max_retries :
                Cardinality({i \in CompletionCalls : calls[i].attempt = a}) = 1

\* the cargo binary was missing in the first attempt of a call that has
\* returned after more than one attempt
C13_Witness ==
  /\ pc = "done"
  /\ max_retries >= 1
  /\ CargoMissing(0)
  /\ Len(result.attempts) = max_retries + 1

\* something failed inside attempt k: the completion call, the extraction,
\* the writing of the files, the spawning of cargo, or a deadline
FailedInside(k) ==
  \/ GotNoCode(k)
  \/ \E i \in CallsOf(k) : calls[i].exc # "none"

\* C14: every failure inside an attempt ends as exactly one record of that
\* attempt with status failed; after it the loop goes on, so the call
\* returns only when it has run all its iterations or has passed, and what
\* it returns is the result dictionary.
C14_FailuresBecomeRecords ==
  /\ \A k \in 0..MaxRetries :
       FailedInside(k) /\ (attempt > k \/ pc = "done") =>
         /\ Len(result.attempts) > k
         /\ AttemptRecord(k).status = "failed"
         /\ AttemptRecord(k).attempt = k + 1
  /\ \A a, b \in 1..Len(result.attempts) :
       result.attempts[a].attempt = result.attempts[b].attempt => a = b
  /\ pc = "done" =>
       /\ broke \/ attempt = max_retries + 1
       /\ DOMAIN result = {"prompt", "attempts", "final_status", "retry_count"}

\* a call has returned whose three attempts failed in three ways: the
\* completion call raised, writing the files raised, cargo timed out
C14_Witness ==
  /\ pc = "done"
  /\ Len(result.attempts) = 3
  /\ \E i \in CallsOf(0) : calls[i].op = "completion" /\ calls[i].exc # "none"
  /\ \E i \in CallsOf(1) : calls[i].op = "write" /\ calls[i].exc # "none"
  /\ TimedOut(2)
  /\ \A k \in 0..2 : AttemptRecord(k).status = "failed"

\* the position in the batch of the request that built[i] belongs to: the
\* number of first attempts up to it
RequestOf(i) == Cardinality({j \in 1..i : built[j].attempt = 0})

\* the user request a prompt was built for
UserRequest(full_prompt) ==
  LET at == {i \in 1..Len(full_prompt) : full_prompt[i].section = "USER REQUEST"}
  IN  full_prompt[Min(at)].text

\* C15: batch_generate goes on to the next prompt whatever the final status
\* of the results so far, and returns only when it has one result per
\* prompt, the i-th result being that of the i-th prompt; the attempts run
\* request by request in input order: each attempt
\* follows the previous attempt of its request or starts the next request,
\* and a request starts only when all earlier requests have returned.
C15_BatchInInputOrder ==
  /\ Len(batch.results) <= Len(batch.prompts)
  /\ \A i \in 1..Len(batch.results) :
       batch.results[i].prompt = batch.prompts[i]
  /\ batch.state = "done" => Len(batch.results) = Len(batch.prompts)
  /\ \A i \in 1..Len(built) :
       /\ RequestOf(i) \in 1..Len(batch.prompts)
       /\ UserRequest(built[i].full_prompt) = batch.prompts[RequestOf(i)]
       /\ built[i].attempt # 0 =>
            i > 1 /\ built[i].attempt = built[i - 1].attempt + 1
  /\ built # <<>> =>
       Len(batch.results) \in {RequestOf(Len(built)) - 1, RequestOf(Len(built))}

\* batch_generate has returned two results for two different prompts, the
\* first of them failed
C15_Witness ==
  /\ batch.state = "done"
  /\ Len(batch.results) = 2
  /\ batch.prompts[1] # batch.prompts[2]
  /\ batch.results[1].final_status = "failed"
  /\ Len(batch.results[2].attempts) = DefaultMaxRetries + 1

\* C16: results.json is dumped once per completed request, right when the
\* request's result is appended: there are as many dumps as results, none
\* while a request runs, and the i-th dump holds the first i results in
\* input order with the summary of exactly those.
C16_OneDumpPerRequest ==
  /\ Len(saved) = Len(batch.results) - (IF batch.state = "raised" THEN 1 ELSE 0)
  /\ batch.state = "done" => Len(saved) = Len(batch.prompts)
  /\ built # <<>> =>
       /\ Len(saved) \in {RequestOf(Len(built)) - 1, RequestOf(Len(built))}
       /\ pc = "idle" /\ batch.state # "raised" =>
            Len(saved) = RequestOf(Len(built))
       /\ pc \in {"write", "check", "test", "record", "done"} =>
            Len(saved) = RequestOf(Len(built)) - 1
  /\ \A i \in 1..Len(saved) :
       /\ saved[i].results = SubSeq(batch.results, 1, i)
       /\ \A j \in 1..i : saved[i].results[j].prompt = batch.prompts[j]
       /\ saved[i].summary.total_attempts = i
       /\ saved[i].summary.failed =
            Cardinality({j \in 1..i : batch.results[j].final_status = "failed"})
       /\ saved[i].summary.successful =
            Cardinality({j \in 1..i : batch.results[j].final_status = "passed"})
       /\ saved[i].summary.retry_rate.num =
            SumRetry(SubSeq(batch.results, 1, i))
       /\ saved[i].summary.retry_rate.den = i

\* batch_generate has returned after two requests and two dumps
C16_Witness ==
  /\ batch.state = "done"
  /\ Len(batch.prompts) = 2
  /\ Len(saved) = 2
  /\ Len(saved[1].results) = 1
  /\ Len(saved[2].results) = 2

\* two passed on the first attempt, one used up its retries, in any order
TwoPassOneExhausts(results) ==
  /\ Len(results) = 3
  /\ \E f \in 1..3 :
       /\ results[f].final_status = "failed"
       /\ \A k \in 1..Len(results[f].attempts) :
            results[f].attempts[k].status = "failed"
       /\ \A i \in (1..3) \ {f} :
            results[i].final_status = "passed" /\ results[i].retry_count = 0

\* C17: the summary _save_results dumps for a list of results counts the
\* results, those passed and those failed, the two adding up to all; its
\* retry_rate is the sum of retry_count over the number of results, and 0
\* for the empty list; two first-attempt passes and one exhausted request
\* give 3, 2 and 1.
C17_Summary ==
  \A d \in 1..Len(saved) :
    LET rs == batch.results
        n == Len(rs)
        sm == saved[d].summary
    IN  /\ saved[d].results = rs
        /\ sm.total_attempts = n
        /\ sm.successful = Cardinality({i \in 1..n : rs[i].final_status = "passed"})
        /\ sm.failed = Cardinality({i \in 1..n : rs[i].final_status = "failed"})
        /\ sm.successful + sm.failed = sm.total_attempts
        /\ n = 0 => sm.retry_rate = Zero
        /\ n > 0 => /\ sm.retry_rate.den # 0
                    /\ sm.retry_rate.num * n = SumRetry(rs) * sm.retry_rate.den
        /\ TwoPassOneExhausts(rs) =>
             sm.total_attempts = 3 /\ sm.successful = 2 /\ sm.failed = 1

\* the summary of two first-attempt passes and one exhausted request has
\* been dumped
C17_Witness ==
  /\ saved # <<>>
  /\ TwoPassOneExhausts(batch.results)
  /\ SumRetry(batch.results) > 0

\* C19: two requests of one run with different prompts never write to the
\* same project directory.
C19_DistinctPromptsDistinctDirectories ==
  \A a, b \in 1..Len(writes) :
    writes[a].prompt # writes[b].prompt => writes[a].name # writes[b].name

\* the project directory of the request
PackageName == blueprint_name_of(hashes[prompt])

\* the calls of _write_code_file that returned
ReturnedWrites == {a \in 1..Len(writes) : writes[a].ok}

C20_WriteReplaces ==
  pc \in {"check", "test", "record"} =>
    /\ code # None
    /\ writes[Len(writes)] = [prompt |-> prompt, attempt |-> attempt,
                              name |-> PackageName, code |-> code, ok |-> TRUE]
    /\ fs[PackageName].lib_rs = code
    /\ fs[PackageName].cargo_toml = Some(cargo_toml(PackageName))

\* _write_code_file has just returned in a directory whose lib.rs an earlier
\* attempt had written with other code
C20_Witness ==
  /\ pc = "check"
  /\ \E a \in ReturnedWrites : writes[a].attempt < attempt /\ writes[a].code # code

RustFence == [pre |-> <<BQ,BQ,BQ,"r","u","s","t","\n">>, suf |-> <<"\n",BQ,BQ,BQ>>]
ScryptoFence ==
  [pre |-> <<BQ,BQ,BQ,"s","c","r","y","p","t","o","\n">>, suf |-> <<"\n",BQ,BQ,BQ>>]
UntaggedFence == [pre |-> <<BQ,BQ,BQ,"\n">>, suf |-> <<"\n",BQ,BQ,BQ>>]
Recognizers ==
  << RustFence, ScryptoFence, UntaggedFence,
     [pre |-> <<BQ,BQ,BQ,"r","u","s","t">>, suf |-> <<BQ,BQ,BQ>>],
     [pre |-> <<BQ,BQ,BQ>>, suf |-> <<BQ,BQ,BQ>>] >>

\* the recognizers that match in text
Matching(text) ==
  {k \in 1..Len(Recognizers) : FirstMatch(text, Recognizers[k]) # None}

\* those whose first match holds a signature token
Accepting(text) ==
  {k \in Matching(text) :
     _looks_like_scrypto(FirstMatch(text, Recognizers[k])[1])}

\* C22: when the first match of some recognizer holds a signature token,
\* _extract_scrypto_code returns the stripped first match of the earliest
\* such recognizer in the order rust-tagged, scrypto-tagged, untagged,
\* wherever the blocks stand; whatever it returns that is not None holds a
\* signature token.
C22_EarliestRecognizerWins ==
  \A i \in 1..Len(probe.returns) :
    LET r == probe.returns[i]
        acc == Accepting(probe.text)
    IN  /\ acc # {} =>
             r = Some(Strip(FirstMatch(probe.text, Recognizers[Min(acc)])[1]))
        /\ r # None => _looks_like_scrypto(r[1])

\* an untagged block with a signature token stands before a rust-tagged
\* block with other code, and the code of the rust-tagged block is returned
C22_Witness ==
  /\ probe.returns # <<>>
  /\ LET rust == FirstMatch(probe.text, RustFence)
         plain == FirstMatch(probe.text, UntaggedFence)
     IN  /\ rust # None /\ plain # None
         /\ _looks_like_scrypto(rust[1]) /\ _looks_like_scrypto(plain[1])
         /\ Strip(rust[1]) # Strip(plain[1])
         /\ Min(MatchStarts(probe.text, UntaggedFence))
              < Min(MatchStarts(probe.text, RustFence))
         /\ probe.returns[1] = Some(Strip(rust[1]))

\* C23: a response in which some recognizer matches and no first match
\* holds a signature token yields None; the whole response is returned
\* only when no recognizer matches.
C23_WholeResponseOnlyWithoutFence ==
  \A i \in 1..Len(probe.returns) :
    Matching(probe.text) # {} /\ Accepting(probe.text) = {} =>
      probe.returns[i] = None

\* the completion calls of attempt a
CompletionCallsOf(a) == {i \in CompletionCalls : calls[i].attempt = a}

\* C24: no attempt makes more than one completion call, a generate_and_test
\* call makes at most max_retries + 1 of them, and between attempts and on
\* return there are as many completion calls as attempt records.
C24_OneCompletionCallPerAttempt ==
  /\ \A a \in 0..MaxRetries : Cardinality(CompletionCallsOf(a)) <= 1
  /\ Cardinality(CompletionCalls) <= max_retries + 1
  /\ \A k \in 1..Len(result.attempts) :
       CompletionCallsOf(result.attempts[k].attempt - 1) # {}
  /\ pc \in {"loop", "done"} =>
       Cardinality(CompletionCalls) = Len(result.attempts)
  /\ pc \in {"write", "check", "test", "record"} =>
       Cardinality(CompletionCalls) = Len(result.attempts) + 1

\* a call with max_retries = 2 has returned; the completion call of its
\* first attempt raised and was not made again in that attempt
C24_Witness ==
  /\ pc = "done"
  /\ max_retries = 2
  /\ Len(result.attempts) = 3
  /\ \E i \in CompletionCallsOf(0) : calls[i].exc # "none"
  /\ Cardinality(CompletionCalls) = 3

SectionsNamed(full_prompt, name) ==
  {i \in 1..Len(full_prompt) : full_prompt[i].section = name}

\* C26: the prompt of attempt 0 has no PREVIOUS COMPILATION ERROR section;
\* the prompt of the attempt after one that failed in cargo check or cargo
\* test has that section, after the user request, also when the failed
\* attempt's diagnostic is the empty string.
C26_ErrorSectionAfterFailure ==
  \A i \in 1..Len(built) :
    /\ built[i].attempt = 0 =>
         SectionsNamed(built[i].full_prompt, "PREVIOUS COMPILATION ERROR") = {}
    /\ \A j \in 1..Len(runs) :
         ( /\ ~runs[j].success
           /\ runs[j].type \in {"compilation_error", "test_complete"}
           /\ built[i].attempt = runs[j].attempt + 1 )
         => \E e \in SectionsNamed(built[i].full_prompt,
                                   "PREVIOUS COMPILATION ERROR") :
              \A u \in SectionsNamed(built[i].full_prompt, "USER REQUEST") :
                u < e

\* C28: retry_count is at least 0 and at most max_retries at every point of
\* a generate_and_test run, and no step of the run makes it smaller, save
\* one that records a passing attempt and sets it to that attempt's ordinal.
C28_RetryCountBounded ==
  [][ /\ result'.retry_count \in 0..max_retries'
      /\ \/ pc = "idle"
         \/ result'.retry_count >= result.retry_count
         \/ /\ result'.final_status = "passed"
            /\ result'.retry_count = attempt ]_vars

\* a call with max_retries = 2 has returned after three attempts, one of
\* which failed in cargo test
C28_Witness ==
  /\ pc = "done"
  /\ max_retries = 2
  /\ Len(result.attempts) = 3
  /\ \E j \in 1..Len(runs) : ~runs[j].success /\ runs[j].type = "test_complete"
  /\ result.retry_count \in 0..max_retries

\* the records with status passed
PassedRecords ==
  {k \in 1..Len(result.attempts) : result.attempts[k].status = "passed"}

\* C29: when generate_and_test has returned, final_status is passed exactly
\* when some record is passed; then one record is, the last; otherwise
\* final_status is failed and so is every record.
C29_FinalStatusMatchesRecords ==
  pc = "done" =>
    /\ result.final_status = "passed" <=> PassedRecords # {}
    /\ PassedRecords # {} => PassedRecords = {Len(result.attempts)}
    /\ PassedRecords = {} =>
         /\ result.final_status = "failed"
         /\ \A k \in 1..Len(result.attempts) :
              result.attempts[k].status = "failed"

\* a call has returned with two records and final_status failed
C29_Witness ==
  /\ pc = "done"
  /\ Len(result.attempts) = 2
  /\ result.final_status = "failed"
  /\ PassedRecords = {}

\* C27: an entered generate_and_test call returns; it returns passed or
\* with max_retries + 1 records, failed only with max_retries + 1 records;
\* and the attempt after a recorded attempt k is made, once the call has
\* returned failed, exactly for k + 1 < max_retries + 1.
C27_CallReturns ==
  /\ (pc # "idle") ~> (pc = "done")
  /\ [](pc = "done" =>
          /\ \/ result.final_status = "passed"
             \/ Len(result.attempts) = max_retries + 1
          /\ result.final_status = "failed" =>
               /\ Len(result.attempts) = max_retries + 1
               /\ \A k \in 0..(Len(result.attempts) - 1) :
                    (\E i \in 1..Len(built) : built[i].attempt = k + 1)
                      <=> k + 1 < max_retries + 1)

\* a call with max_retries = 2 has returned after three attempts, cargo
\* having timed out in the second
C27_Witness ==
  /\ pc = "done"
  /\ max_retries = 2
  /\ Len(result.attempts) = 3
  /\ TimedOut(1)
  /\ result.final_status = "failed"

====
